---- MODULE Spec2Model ----
(***************************************************************************)
(* HybridRetriever (src/src/search/hybridRetriever.ts): one call of        *)
(* getRelevantDocuments, from the call to its return or its rejection.     *)
(* Every await of the call is a position of pc; the collaborators (vault,  *)
(* index lookup by path, language model, embedding, vector search) answer  *)
(* or throw nondeterministically.                                          *)
(***************************************************************************)
EXTENDS Integers, Sequences, FiniteSets, TLC

\* ---------------------------------------------------------------- bounds
NumPassages == 2   \* passages held by the index
MaxK == 3          \* options.maxK ranges over 1..MaxK
MaxQueryLen == 2   \* tokens of a query

\* ---------------------------------------------------------------- values
\* A query is a sequence of tokens; a token is a plain word or a [[Title]].
Titles == {"A", "B", "M"}
Words == {"w"}
Tokens == [ref : {TRUE}, text : Titles] \cup [ref : {FALSE}, text : Words]

RECURSIVE SeqsUpTo(_, _)
SeqsUpTo(S, n) ==
  IF n = 0 THEN {<<>>}
  ELSE LET shorter == SeqsUpTo(S, n - 1)
       IN shorter \cup {Append(s, x) : s \in {t \in shorter : Len(t) = n - 1}, x \in S}

Queries == SeqsUpTo(Tokens, MaxQueryLen)

\* config?.runName: "undefined" stands for a call without config
RunNames == {"no_hyde", "undefined"}

\* what the language model may answer in its content field
HydePassage == <<[ref |-> FALSE, text |-> "hyde"]>>
LlmContents == {HydePassage}

\* the vault: title A is the note a.md, B is b.md, M names no note
NoSuchFile == [found |-> FALSE, path |-> ""]
Vault == [t \in {"A", "B"} |-> IF t = "A" THEN "a.md" ELSE "b.md"]

\* the index: every passage has the path of the note that owns it and a
\* content; its id is its position
Paths == {"a.md", "b.md"}
Contents == {"x", "y"}
Indexes == [1..NumPassages -> [path : Paths, content : Contents]]

Min(a, b) == IF a < b THEN a ELSE b

VARIABLES
  db,              \* this.db, the Orama index
  maxK,            \* this.options.maxK
  pc,              \* position of the call
  query,           \* argument query
  runName,         \* argument config?.runName
  noteTitles,      \* const noteTitles
  ti,              \* position of the for loop of getExplicitChunks
  noteFile,        \* const noteFile of the current iteration
  explicitChunks,  \* explicitChunks accumulated by getExplicitChunks
  rewrittenQuery,  \* let rewrittenQuery
  llm,             \* state of the this.llm.invoke call
  llmCalls,        \* number of this.llm.invoke calls made
  llmContent,      \* content the model returned
  embed,           \* state of the embedQuery call
  embedLog,        \* texts handed to embedQuery, in order
  search,          \* state of the vector search call
  searchHits,      \* searchResults.hits
  result,          \* value the promise resolved with
  error            \* error the promise rejected with

vars == <<db, maxK, pc, query, runName, noteTitles, ti, noteFile, explicitChunks,
          rewrittenQuery, llm, llmCalls, llmContent, embed, embedLog,
          search, searchHits, result, error>>

\* ------------------------------------------------------- pure functions

\* extractNoteTitles: the distinct titles inside [[ ]], left to right
RECURSIVE extractNoteTitles(_)
extractNoteTitles(q) ==
  IF q = <<>> THEN <<>>
  ELSE LET front == extractNoteTitles(SubSeq(q, 1, Len(q) - 1))
           last == q[Len(q)]
       IN IF last.ref /\ \A i \in DOMAIN front : front[i] # last.text
          THEN Append(front, last.text)
          ELSE front

\* getNoteFileFromTitle: the file of the vault with that title, else null
getNoteFileFromTitle(title) ==
  IF title \in DOMAIN Vault THEN [found |-> TRUE, path |-> Vault[title]]
  ELSE NoSuchFile

\* noteFile?.path ?? ""
PathOrEmpty_FirstNote(file) == IF file.found THEN file.path ELSE "a.md"
PathOrEmpty(file) == IF file.found THEN file.path ELSE ""

\* a hit of the index for passage i
Hit(d, i) == [id |-> i, path |-> d[i].path, content |-> d[i].content]

\* VectorDBManager.getDocsByPath: all passages owned by the path, in index order
getDocsByPath(d, path) ==
  SelectSeq([i \in 1..NumPassages |-> Hit(d, i)], LAMBDA h : h.path = path)

\* new Document({pageContent: hit.document.content, metadata: {...}})
Document(hit) == [pageContent |-> hit.content, id |-> hit.id, path |-> hit.path]

ToDocuments(hits) == [i \in DOMAIN hits |-> Document(hits[i])]

\* config?.runName !== "no_hyde"
HydeEnabled_Always(rn) == TRUE
HydeEnabled(rn) == rn # "no_hyde"

\* the loop of lines 55-61 over oramaChunks
RECURSIVE MergeLoop(_, _, _)
MergeLoop(orama, uniqueChunks, combinedChunks) ==
  IF orama = <<>> THEN combinedChunks
  ELSE LET chunk == Head(orama)
       IN IF chunk.pageContent \notin uniqueChunks
          THEN MergeLoop(Tail(orama), uniqueChunks \cup {chunk.pageContent},
                         Append(combinedChunks, chunk))
          ELSE MergeLoop(Tail(orama), uniqueChunks, combinedChunks)

CombineChunks_NoDedup(explicit, orama) == explicit \o orama
CombineChunks_VectorFirst(explicit, orama) ==
  MergeLoop(explicit, {orama[i].pageContent : i \in DOMAIN orama}, orama)
\* lines 52-61: explicit chunks first, then the vector chunks not yet seen
CombineChunks(explicit, orama) ==
  MergeLoop(orama, {explicit[i].pageContent : i \in DOMAIN explicit}, explicit)

SliceToMaxK_OffByOne(chunks, k) == SubSeq(chunks, 1, Min(Len(chunks), k + 1))
\* combinedChunks.slice(0, this.options.maxK)
SliceToMaxK(chunks, k) == SubSeq(chunks, 1, Min(Len(chunks), k))

\* the argument of getOramaChunks at line 49
QueryToEmbed_Original(q, rewritten) == q
QueryToEmbed(q, rewritten) == rewritten

\* rewriteQuery, lines 93-97, on a response of the model
RewriteResult(q, hasContent, content) == IF hasContent THEN content ELSE q

\* sequences of distinct passages the vector search may return under a limit
HitSeqs(d, limit) ==
  UNION {{[i \in 1..n |-> Hit(d, f[i])] :
            f \in {g \in [1..n -> 1..NumPassages] :
                     \A a, b \in 1..n : a # b => g[a] # g[b]}} :
         n \in 0..Min(limit, NumPassages)}

\* ------------------------------------------------------------------ Init
Init ==
  /\ db \in Indexes
  /\ maxK \in 1..MaxK
  /\ pc = "idle"
  /\ query = <<>>
  /\ runName = "undefined"
  /\ noteTitles = <<>>
  /\ ti = 0
  /\ noteFile = NoSuchFile
  /\ explicitChunks = <<>>
  /\ rewrittenQuery = <<>>
  /\ llm = "none"
  /\ llmCalls = 0
  /\ llmContent = <<>>
  /\ embed = "none"
  /\ embedLog = <<>>
  /\ search = "none"
  /\ searchHits = <<>>
  /\ result = <<>>
  /\ error = "none"

\* -------------------------------------------------------------- actions

\* lines 42-49 up to the first await: rewriteQuery awaits this.llm.invoke,
\* or, when bypassed, getOramaChunks awaits embedQuery on the original query
AfterExplicitChunks(q, rn) ==
  IF HydeEnabled(rn)
  THEN /\ pc' = "llm"
       /\ llm' = "pending"
       /\ llmCalls' = llmCalls + 1
       /\ rewrittenQuery' = q
       /\ UNCHANGED <<embed, embedLog>>
  ELSE /\ pc' = "embed"
       /\ rewrittenQuery' = q
       /\ embed' = "pending"
       /\ embedLog' = Append(embedLog, QueryToEmbed(q, q))
       /\ UNCHANGED <<llm, llmCalls>>

\* lines 37-41: the call; titles are extracted and the loop of
\* getExplicitChunks awaits the resolution of the first title
getRelevantDocuments(q, rn) ==
  /\ pc = "idle"
  /\ query' = q
  /\ runName' = rn
  /\ noteTitles' = extractNoteTitles(q)
  /\ IF extractNoteTitles(q) = <<>>
     THEN /\ AfterExplicitChunks(q, rn)
          /\ UNCHANGED ti
     ELSE /\ pc' = "resolve"
          /\ ti' = 1
          /\ UNCHANGED <<rewrittenQuery, llm, llmCalls, embed, embedLog>>
  /\ UNCHANGED <<db, maxK, noteFile, explicitChunks, llmContent, search,
                 searchHits, result, error>>

\* line 108: getNoteFileFromTitle resolves
ResolveReturns ==
  /\ pc = "resolve"
  /\ noteFile' = getNoteFileFromTitle(noteTitles[ti])
  /\ pc' = "lookup"
  /\ UNCHANGED <<db, maxK, query, runName, noteTitles, ti, explicitChunks,
                 rewrittenQuery, llm, llmCalls, llmContent, embed, embedLog,
                 search, searchHits, result, error>>

\* line 108: getNoteFileFromTitle rejects; nothing catches it up to the caller
ResolveThrows ==
  /\ pc = "resolve"
  /\ pc' = "failed"
  /\ error' = "resolve"
  /\ UNCHANGED <<db, maxK, query, runName, noteTitles, ti, noteFile,
                 explicitChunks, rewrittenQuery, llm, llmCalls, llmContent,
                 embed, embedLog, search, searchHits, result>>

\* lines 109-133: getDocsByPath resolves, its hits are appended; then the
\* next title, or the end of getExplicitChunks
LookupReturns ==
  /\ pc = "lookup"
  /\ explicitChunks' =
       explicitChunks \o ToDocuments(getDocsByPath(db, PathOrEmpty(noteFile)))
  /\ IF ti < Len(noteTitles)
     THEN /\ pc' = "resolve"
          /\ ti' = ti + 1
          /\ UNCHANGED <<rewrittenQuery, llm, llmCalls, embed, embedLog>>
     ELSE /\ AfterExplicitChunks(query, runName)
          /\ UNCHANGED ti
  /\ UNCHANGED <<db, maxK, query, runName, noteTitles, noteFile, llmContent,
                 search, searchHits, result, error>>

\* line 109: getDocsByPath rejects; nothing catches it up to the caller
LookupThrows ==
  /\ pc = "lookup"
  /\ pc' = "failed"
  /\ error' = "lookup"
  /\ UNCHANGED <<db, maxK, query, runName, noteTitles, ti, noteFile,
                 explicitChunks, rewrittenQuery, llm, llmCalls, llmContent,
                 embed, embedLog, search, searchHits, result>>

\* rewriteQuery returned r; line 49 calls getOramaChunks, which awaits embedQuery
RewriteDone(r) ==
  /\ rewrittenQuery' = r
  /\ pc' = "embed"
  /\ embed' = "pending"
  /\ embedLog' = Append(embedLog, QueryToEmbed(query, r))
  /\ UNCHANGED <<db, maxK, query, runName, noteTitles, ti, noteFile,
                 explicitChunks, llmCalls, search, searchHits, result, error>>

\* lines 90-95: the model answers with a content field
LlmReturnsContent(c) ==
  /\ pc = "llm"
  /\ llm' = "content"
  /\ llmContent' = c
  /\ RewriteDone(RewriteResult(query, TRUE, c))

\* lines 90-97: the model answers without a content field
LlmReturnsNoContent ==
  /\ pc = "llm"
  /\ llm' = "nocontent"
  /\ UNCHANGED llmContent
  /\ RewriteDone(RewriteResult(query, FALSE, <<>>))

LlmThrows_Propagates ==
  /\ pc = "llm"
  /\ llm' = "threw"
  /\ pc' = "failed"
  /\ error' = "llm"
  /\ UNCHANGED <<db, maxK, query, runName, noteTitles, ti, noteFile,
                 explicitChunks, rewrittenQuery, llmCalls, llmContent, embed,
                 embedLog, search, searchHits, result>>
\* lines 98-102: the model call throws; the catch returns the query
LlmThrows ==
  /\ pc = "llm"
  /\ llm' = "threw"
  /\ UNCHANGED llmContent
  /\ RewriteDone(query)

\* lines 140, 151: the embedding returns a vector and the search is invoked
EmbedReturns ==
  /\ pc = "embed"
  /\ embed' = "returned"
  /\ pc' = "search"
  /\ search' = "pending"
  /\ UNCHANGED <<db, maxK, query, runName, noteTitles, ti, noteFile,
                 explicitChunks, rewrittenQuery, llm, llmCalls, llmContent,
                 embedLog, searchHits, result, error>>

EmbedThrows_Swallowed ==
  /\ pc = "embed"
  /\ embed' = "threw"
  /\ pc' = "done"
  /\ result' = SliceToMaxK(CombineChunks(explicitChunks, <<>>), maxK)
  /\ UNCHANGED <<db, maxK, query, runName, noteTitles, ti, noteFile,
                 explicitChunks, rewrittenQuery, llm, llmCalls, llmContent,
                 embedLog, search, searchHits, error>>
\* lines 141-149: the embedding throws; the catch logs and rethrows
EmbedThrows ==
  /\ pc = "embed"
  /\ embed' = "threw"
  /\ pc' = "failed"
  /\ error' = "embed"
  /\ UNCHANGED <<db, maxK, query, runName, noteTitles, ti, noteFile,
                 explicitChunks, rewrittenQuery, llm, llmCalls, llmContent,
                 embedLog, search, searchHits, result>>

\* lines 151-183 and 51-84: the search returns at most maxK hits; they are
\* converted, merged behind the explicit chunks, cut to maxK and returned
SearchReturns ==
  /\ pc = "search"
  /\ \E hits \in HitSeqs(db, maxK) :
       /\ searchHits' = hits
       /\ result' = SliceToMaxK(CombineChunks(explicitChunks, ToDocuments(hits)), maxK)
  /\ search' = "returned"
  /\ pc' = "done"
  /\ UNCHANGED <<db, maxK, query, runName, noteTitles, ti, noteFile,
                 explicitChunks, rewrittenQuery, llm, llmCalls, llmContent,
                 embed, embedLog, error>>

\* line 151: the search rejects; nothing catches it up to the caller
SearchThrows ==
  /\ pc = "search"
  /\ search' = "threw"
  /\ pc' = "failed"
  /\ error' = "search"
  /\ UNCHANGED <<db, maxK, query, runName, noteTitles, ti, noteFile,
                 explicitChunks, rewrittenQuery, llm, llmCalls, llmContent,
                 embed, embedLog, searchHits, result>>

Next ==
  \/ \E q \in Queries, rn \in RunNames : getRelevantDocuments(q, rn)
  \/ ResolveReturns
  \/ ResolveThrows
  \/ LookupReturns
  \/ LookupThrows
  \/ \E c \in LlmContents : LlmReturnsContent(c)
  \/ LlmReturnsNoContent
  \/ LlmThrows
  \/ EmbedReturns
  \/ EmbedThrows
  \/ SearchReturns
  \/ SearchThrows

Spec == Init /\ [][Next]_vars

TypeOK ==
  /\ pc \in {"idle", "resolve", "lookup", "llm", "embed", "search", "done", "failed"}
  /\ maxK \in 1..MaxK
  /\ ti \in 0..MaxQueryLen
  /\ llm \in {"none", "pending", "content", "nocontent", "threw"}
  /\ embed \in {"none", "pending", "returned", "threw"}
  /\ search \in {"none", "pending", "returned", "threw"}
  /\ error \in {"none", "resolve", "lookup", "embed", "search"}
  /\ Len(embedLog) <= 1
  /\ llmCalls <= 1

\* ------------------------------------------------- reference definitions

\* positions of the vector chunks the merge keeps: the content is that of no
\* explicit chunk and of no earlier vector chunk
KeptVector(e, v) ==
  {i \in DOMAIN v :
     /\ \A j \in DOMAIN e : e[j].pageContent # v[i].pageContent
     /\ \A j \in 1..(i - 1) : v[j].pageContent # v[i].pageContent}

\* the r-th kept position, in the order of the index's answer
NthKept(K, r) == CHOOSE i \in K : Cardinality({j \in K : j < i}) = r - 1

\* explicit chunks, then the kept vector chunks, cut to the first k entries
ReferenceMerge(e, v, k) ==
  LET K == KeptVector(e, v)
      all == e \o [r \in 1..Cardinality(K) |-> v[NthKept(K, r)]]
  IN [i \in 1..Min(Len(all), k) |-> all[i]]

\* the passages the index holds for the document title t resolves to
PassagesOf(t) == getDocsByPath(db, getNoteFileFromTitle(t).path)

\* number of explicit chunks fetched for the first n extracted titles
RECURSIVE FetchedUpTo(_)
FetchedUpTo(n) ==
  IF n = 0 THEN 0
  ELSE FetchedUpTo(n - 1)
       + Len(getDocsByPath(db, PathOrEmpty(getNoteFileFromTitle(noteTitles[n]))))

\* an entry of the result that no explicit fetch produced
VectorOnly(c) == \A k \in DOMAIN explicitChunks : explicitChunks[k].id # c.id

\* passage p is in the result, ahead of every vector-only entry
IncludedFirst(p) ==
  \E i \in DOMAIN result :
    /\ result[i].id = p.id
    /\ \A j \in DOMAIN result : VectorOnly(result[j]) => i < j

\* ----------------------------------------------------------------- claims

\* C1: a retrieve call that returns a result returns at most maxK entries.
Thm_C1 == pc = "done" => Len(result) <= maxK

Witness_C1 ==
  /\ pc = "done"
  /\ Len(explicitChunks) + Cardinality(KeptVector(explicitChunks, ToDocuments(searchHits))) > maxK
  /\ Len(result) = maxK

\* C2 as stated: when the query names a title that resolves to a document
\* with passages P and maxK >= |P|, the result holds every passage of P, each
\* ahead of every vector-only entry, whatever other titles the query names.
CE_C2 ==
  pc = "done" =>
    \A n \in DOMAIN noteTitles :
      (getNoteFileFromTitle(noteTitles[n]).found
       /\ maxK >= Len(PassagesOf(noteTitles[n])))
      => \A i \in DOMAIN PassagesOf(noteTitles[n]) :
           IncludedFirst(PassagesOf(noteTitles[n])[i])

\* C2 amended: the same, when maxK is at least the number of explicit chunks
\* fetched for the titles up to and including that title.
Thm_C2 ==
  pc = "done" =>
    \A n \in DOMAIN noteTitles :
      (getNoteFileFromTitle(noteTitles[n]).found /\ maxK >= FetchedUpTo(n))
      => \A i \in DOMAIN PassagesOf(noteTitles[n]) :
           IncludedFirst(PassagesOf(noteTitles[n])[i])

Witness_C2 ==
  /\ pc = "done"
  /\ Len(noteTitles) = 2
  /\ getNoteFileFromTitle(noteTitles[2]).found
  /\ PassagesOf(noteTitles[2]) # <<>>
  /\ maxK >= FetchedUpTo(2)
  /\ \E j \in DOMAIN result : VectorOnly(result[j])

\* C3: no two entries of the returned sequence have identical content.
CE_C3 ==
  pc = "done" =>
    \A i, j \in DOMAIN result :
      i # j => result[i].pageContent # result[j].pageContent

\* C4: the result is the reference merge: the explicit chunks in fetch order,
\* then the vector chunks in the index's order without those whose content is
\* already included, cut to maxK; no entry behind the explicit chunks has the
\* content of an explicit chunk; more than maxK explicit chunks leave no room
\* for a vector chunk.
Thm_C4 ==
  pc = "done" =>
    /\ result = ReferenceMerge(explicitChunks, ToDocuments(searchHits), maxK)
    /\ \A i \in DOMAIN result :
         i > Len(explicitChunks) =>
           \A j \in DOMAIN explicitChunks :
             explicitChunks[j].pageContent # result[i].pageContent
    /\ Len(explicitChunks) > maxK =>
         result = [i \in 1..maxK |-> explicitChunks[i]]

Witness_C4 ==
  /\ pc = "done"
  /\ explicitChunks # <<>>
  /\ \E i \in DOMAIN searchHits :
       i \notin KeptVector(explicitChunks, ToDocuments(searchHits))
  /\ Len(result) > Len(explicitChunks)

\* C5: when the model throws or answers without content, the rewrite step
\* yields the original query, that query is what is embedded, and the call
\* fails only if the embedding or the search fails.
Thm_C5 ==
  (runName # "no_hyde" /\ llm \in {"threw", "nocontent"}) =>
    /\ rewrittenQuery = query
    /\ embedLog = <<query>>
    /\ error \in {"none", "embed", "search"}
    /\ (embed = "returned" /\ search = "returned") => pc = "done"

Witness_C5 ==
  /\ pc = "done"
  /\ llm = "threw"
  /\ query # <<>>
  /\ embedLog = <<query>>

\* C6: with runName "no_hyde" the model is never called and the embedding
\* receives the original query.
Thm_C6 ==
  (runName = "no_hyde" /\ pc # "idle") =>
    /\ llmCalls = 0
    /\ llm = "none"
    /\ embed # "none" => embedLog = <<query>>

Witness_C6 ==
  /\ pc = "done"
  /\ runName = "no_hyde"
  /\ query # <<>>
  /\ embedLog = <<query>>

\* C7: a throwing embedding or a throwing search makes the call fail with
\* that error and without a result; a call that returns has had both succeed
\* and returns the complete merge.
Thm_C7 ==
  /\ embed = "threw" => (pc = "failed" /\ error = "embed" /\ result = <<>>)
  /\ search = "threw" => (pc = "failed" /\ error = "search" /\ result = <<>>)
  /\ pc = "done" =>
       /\ embed = "returned"
       /\ search = "returned"
       /\ Len(result) = Min(maxK, Len(explicitChunks)
            + Cardinality(KeptVector(explicitChunks, ToDocuments(searchHits))))

Witness_C7 ==
  /\ pc = "failed"
  /\ embed = "threw"
  /\ explicitChunks # <<>>

\* C8: a throwing title resolution or index lookup for one title does not
\* make the retrieve call fail.
CE_C8 == ~(pc = "failed" /\ error \in {"resolve", "lookup"})

Thm_C10 ==
  /\ embed # "none" => llm # "pending"
  /\ search # "none" => embed = "returned"
  /\ (embed # "none") <=> (embedLog # <<>>)
  /\ embedLog # <<>> =>
       embedLog = <<IF llm = "content" THEN llmContent ELSE query>>

Witness_C10 ==
  /\ pc = "done"
  /\ llm = "content"
  /\ llmContent # query
  /\ embedLog = <<llmContent>>

====
